---- MODULE Spec2Model ----
(***************************************************************************)
(* The embedded retrieval store of autocommit (basic_rag.RAGDatabase) and  *)
(* the embedding batcher it drives (mistral_tools.EmbeddingModel).         *)
(*                                                                         *)
(* A file is a sequence of bytes, a text is a sequence of characters; one  *)
(* byte is one character, except BadByte, which no text decoding accepts.  *)
(***************************************************************************)
EXTENDS Integers, Sequences, FiniteSets, TLC

\* ------------------------------------------------------------------ bounds
MaxCalls == 2               \* generate_index/update_index calls per behaviour
MaxOpens == 2               \* constructions of RAGDatabase on the same files
MaxLines == 10              \* longest file given to the chunker alone
MaxChunkSize == 4           \* largest chunk_size given to the chunker alone
chunk_size == 2             \* chunk_size argument of the indexing calls
overlap == 1                \* overlap argument of the indexing calls
max_n_tokens == 4           \* token budget of the database

\* ------------------------------------------------------------- byte strings
NL == "\n"
BadByte == "0xff"

\* bytes.decode(): fails on a byte that is no UTF-8
Decodable(data) == \A i \in 1..Len(data) : data[i] # BadByte

\* str.splitlines(): the lines without their terminators; a final
\* terminator opens no further line
RECURSIVE SplitFrom(_, _, _, _)
SplitFrom(s, i, cur, acc) ==
    IF i > Len(s) THEN (IF cur = <<>> THEN acc ELSE Append(acc, cur))
    ELSE IF s[i] = NL THEN SplitFrom(s, i + 1, <<>>, Append(acc, cur))
    ELSE SplitFrom(s, i + 1, Append(cur, s[i]), acc)

splitlines(s) == SplitFrom(s, 1, <<>>, <<>>)

\* "\n".join(lines)
RECURSIVE join(_)
join(lines) ==
    IF lines = <<>> THEN <<>>
    ELSE IF Len(lines) = 1 THEN lines[1]
    ELSE lines[1] \o <<NL>> \o join(Tail(lines))

\* sha1(data).digest(), taken to be collision free
sha1(data) == <<"sha1", data>>

Range(f) == {f[i] : i \in DOMAIN f}
Min(a, b) == IF a < b THEN a ELSE b

\* ------------------------------------------------------------------ chunker
TextChunk(text, path, start, end, hash) ==
    [text_chunk |-> text, file_path |-> path, start_line |-> start,
     end_line |-> end, file_hash |-> hash]

chunk_starts_whole_steps(n_lines, chunk_limits) ==
    [k \in 1..(n_lines \div chunk_limits) |-> (k - 1) * chunk_limits]

\* range(0, n_lines, chunk_limits) as a sequence
chunk_starts(n_lines, chunk_limits) ==
    [k \in 1..((n_lines + chunk_limits - 1) \div chunk_limits) |->
        (k - 1) * chunk_limits]

chunk_end_short(n_lines, start, size) == Min(n_lines, start + size - 1)

\* the end of the window that starts at `start`
chunk_end(n_lines, start, size) == Min(n_lines, start + size)

\* get_chunks, lines 132-134: the k-th chunk the generator yields
nth_chunk(lines, k, size, ovl, filename, hash) ==
    LET start == chunk_starts(Len(lines), size - ovl)[k]
        end == chunk_end(Len(lines), start, size)
    IN  TextChunk(join(SubSeq(lines, start + 1, end)), filename, start, end,
                  hash)

get_chunks_undecoded(file, size, ovl, filename, hash) ==
    LET lines == splitlines(file)
    IN  [k \in 1..Len(chunk_starts(Len(lines), size - ovl)) |->
            nth_chunk(lines, k, size, ovl, filename, hash)]

\* RAGDatabase.get_chunks, as the list its generator yields
get_chunks(file, size, ovl, filename, hash) ==
    IF ~Decodable(file) THEN <<>>
    ELSE LET lines == splitlines(file)
         IN  [k \in 1..Len(chunk_starts(Len(lines), size - ovl)) |->
                nth_chunk(lines, k, size, ovl, filename, hash)]

\* RAGDatabase.get_all_chunks: the chunks of the files whose digest is not
\* to be skipped, in the order of the files
RECURSIVE get_all_chunks(_, _)
get_all_chunks(files, file_shas_to_skip) ==
    IF files = <<>> THEN <<>>
    ELSE LET f == Head(files)
             hash == sha1(f.data)
             new_chunks == IF hash \in file_shas_to_skip THEN <<>>
                           ELSE get_chunks(f.data, chunk_size, overlap,
                                           f.path, hash)
         IN  new_chunks \o get_all_chunks(Tail(files), file_shas_to_skip)

\* --------------------------------------------------------- embedding batcher
\* the tokenizer: one token per character
get_n_tokens(text) == Len(text)

\* the provider's vector of a text: deterministic, distinct texts differ
Embed(text) == <<"vec", text>>
Zeros == <<"zeros">>
Null == <<>>

\* EmbeddingModel._get_batch_embeddings: one request, one vector per text
get_batch_embeddings(batch) == [i \in 1..Len(batch) |-> Embed(batch[i])]

\* the while loop of get_embeddings_batched_filtered from input i on: the
\* batches handed to the provider, in order
RECURSIVE pack(_, _, _, _)
pack(inputs, i, current_batch, current_batch_size) ==
    LET next_in == inputs[i]
        next_in_size == get_n_tokens(next_in)
    IN  IF current_batch_size + next_in_size >= max_n_tokens
        THEN <<current_batch>> \o pack(inputs, i, <<>>, 0)
        ELSE IF i = Len(inputs)
        THEN <<Append(current_batch, next_in)>>
        ELSE pack(inputs, i + 1, Append(current_batch, next_in),
                  current_batch_size + next_in_size)

\* EmbeddingModel.get_embeddings_batched_filtered: no batch for no input
batches_of(inputs_filtered) ==
    IF Len(inputs_filtered) = 0 THEN <<>> ELSE pack(inputs_filtered, 1, <<>>, 0)

RECURSIVE concatenate(_)
concatenate(seqs) ==
    IF seqs = <<>> THEN <<>> ELSE Head(seqs) \o concatenate(Tail(seqs))

filtered_mask(inputs) ==
    [i \in 1..Len(inputs) |-> get_n_tokens(inputs[i]) >= max_n_tokens]

keep_short(text) == get_n_tokens(text) < max_n_tokens

\* EmbeddingModel.get_embeddings_batched: the embeddings (none when no input
\* is short enough), the mask of the inputs that are too long, and the
\* requests made
get_embeddings_batched(inputs) ==
    LET mask == filtered_mask(inputs)
        filtered == SelectSeq(inputs, keep_short)
        sent == batches_of(filtered)
        embeddings_filtered ==
            concatenate([b \in 1..Len(sent) |-> get_batch_embeddings(sent[b])])
        rank(i) == Cardinality({j \in 1..i : ~mask[j]})
    IN  [none |-> Len(filtered) = 0,
         rows |-> IF Len(filtered) = 0 THEN <<>>
                  ELSE [i \in 1..Len(inputs) |->
                          IF mask[i] THEN Zeros
                          ELSE embeddings_filtered[rank(i)]],
         mask |-> mask,
         sent |-> sent]

\* ------------------------------------------------------------------- inputs
Source == <<"A", "B">>      \* the file paths, in the order the caller lists them
V1 == <<"a", NL, "b", NL>>                   \* two lines
V2 == <<"c", NL>>                            \* one line
TooLong == <<"x", "x", "x", "x", "x", "x">>  \* one line over any budget used
Binary == <<"a", BadByte>>                   \* no text
Versions == <<{V1, V2}, {V1, TooLong, Binary}>>   \* what each path may hold
Absent == <<"absent">>

\* the file lists a caller can pass: each path with one of its contents, or
\* left out
FileLists ==
    {LET present == {i \in 1..Len(Source) : sel[i] # Absent}
         nth(k) == CHOOSE i \in present :
                       Cardinality({j \in present : j < i}) = k - 1
     IN  [k \in 1..Cardinality(present) |->
            [path |-> Source[nth(k)], data |-> sel[nth(k)]]]
     : sel \in {f \in [1..Len(Source) -> UNION Range(Versions) \cup {Absent}] :
                  \A i \in 1..Len(Source) : f[i] \in Versions[i] \cup {Absent}}}

\* -------------------------------------------------------------------- state
VARIABLES
    rag,               \* the rag table as the open connection sees it
    disk_rag,          \* the rag table as committed to db_path
    index,             \* the faiss index in memory: entries [id, vec]
    disk_index,        \* the file at index_path: [exists, entries]
    max_id,            \* RAGDatabase.max_id
    opens,             \* how many times the store has been constructed
    pc,                \* where the running call stands, "idle" between calls
    result,            \* how the last call ended: "none", "returned", "raised"
    calls,             \* calls started so far
    call,              \* the running or last call: [kind, files]
    prev,              \* the call before it
    skip_shas,         \* generate_index: its file_shas_to_skip
    deleted_shas,      \* update_index: the hashes whose rows it deletes
    all_chunks,        \* generate_index: the chunks to embed and insert
    emb,               \* generate_index: what get_embeddings_batched gave
    ids,               \* generate_index: the ids of the rows inserted so far
    requests,          \* the batches the provider was sent by this call
    io,                \* the writes to disk of this call, in order
    rag0,              \* rag when the call started
    index0,            \* index when the call started
    assigned,          \* every id insert_db has taken: [id, chunk, open]
    ck,                \* get_chunks run on its own: [pc, file, size, ovl, lines, out]
    bt,                \* get_embeddings_batched run on its own, step by step
    answer,            \* what the last query since the last call gave
    tr,                \* diff_all_files cutting its items, run on its own
    cv,                \* ModelConversation objects, run on their own
    lm                 \* the rate limiters of a RAGDatabase, run on their own

vars == <<rag, disk_rag, index, disk_index, max_id, opens, pc, result, calls,
          call, prev, skip_shas, deleted_shas, all_chunks, emb, ids,
          requests, io, rag0, index0, assigned, ck, bt, answer,
          tr, cv, lm>>

main == <<rag, disk_rag, index, disk_index, max_id, opens, pc, result, calls,
          call, prev, skip_shas, deleted_shas, all_chunks, emb, ids,
          requests, io, rag0, index0, assigned, answer>>
store == <<rag, disk_rag, index, disk_index, max_id>>
locals == <<skip_shas, deleted_shas, all_chunks, emb, ids>>
entry == <<calls, call, prev, rag0, index0>>

NoCall == [kind |-> "none", files |-> <<>>]
NoEmb == [none |-> TRUE, rows |-> <<>>, mask |-> <<>>, sent |-> <<>>]
NoChunker == [pc |-> "off", file |-> <<>>, size |-> 1, ovl |-> 0,
              lines |-> <<>>, out |-> <<>>]
NoBatcher == [pc |-> "off"]
NoTruncation == [pc |-> "off"]
NoConversation == <<>>
NoLimiters == [pc |-> "off"]
NoAnswer == [kind |-> "none", query |-> <<>>, n_results |-> 0, sent |-> <<>>,
             ids |-> <<>>, chunks |-> <<>>, scores |-> <<>>]

Row(id, chunk, embedding) ==
    [id |-> id, text_chunk |-> chunk.text_chunk, embedding |-> embedding,
     file_path |-> chunk.file_path, start_line |-> chunk.start_line,
     end_line |-> chunk.end_line, file_sha |-> chunk.file_hash]

RowIds(table) == {r.id : r \in table}
IndexIds(ix) == {e.id : e \in ix}
Shas(table) == {r.file_sha : r \in table}
Digests(files) == {sha1(files[i].data) : i \in 1..Len(files)}

Max(S) == CHOOSE x \in S : \A y \in S : y <= x

\* RAGDatabase.__init__ on fresh paths: an empty table, no index file
Init ==
    /\ rag = {} /\ disk_rag = {}
    /\ index = {} /\ disk_index = [exists |-> FALSE, entries |-> {}]
    /\ max_id = 0 /\ opens = 1
    /\ pc = "idle" /\ result = "none" /\ calls = 0
    /\ call = NoCall /\ prev = NoCall
    /\ skip_shas = {} /\ deleted_shas = {}
    /\ all_chunks = <<>> /\ emb = NoEmb /\ ids = <<>>
    /\ requests = <<>> /\ io = <<>>
    /\ rag0 = {} /\ index0 = {}
    /\ assigned = <<>>
    /\ answer = NoAnswer
    /\ tr = NoTruncation /\ cv = NoConversation /\ lm = NoLimiters
    /\ ck = NoChunker
    /\ bt = NoBatcher

initial_max_id_zero(table) == 0

\* __init__, lines 75-77: the largest id of the table, 0 for an empty one
initial_max_id(table) == IF table = {} THEN 0 ELSE Max(RowIds(table))

\* RAGDatabase.__init__ on the files an earlier instance left: the old
\* connection is gone, and with it whatever it had not committed
reopen ==
    /\ pc = "idle" /\ opens < MaxOpens
    /\ opens' = opens + 1
    /\ rag' = disk_rag
    /\ max_id' = initial_max_id(disk_rag)
    /\ index' = IF disk_index.exists THEN disk_index.entries ELSE {}
    /\ result' = "none" /\ call' = NoCall /\ prev' = NoCall
    /\ skip_shas' = {} /\ deleted_shas' = {}
    /\ all_chunks' = <<>> /\ emb' = NoEmb /\ ids' = <<>>
    /\ requests' = <<>> /\ io' = <<>>
    /\ rag0' = disk_rag /\ index0' = index'
    /\ answer' = NoAnswer
    /\ UNCHANGED <<pc, disk_rag, disk_index, calls, assigned, ck, bt, tr, cv, lm>>

\* what every call sets on entry
Enter(kind, files) ==
    /\ pc = "idle" /\ calls < MaxCalls
    /\ calls' = calls + 1
    /\ call' = [kind |-> kind, files |-> files] /\ prev' = call
    /\ result' = "none"
    /\ rag0' = rag /\ index0' = index
    /\ all_chunks' = <<>> /\ emb' = NoEmb /\ ids' = <<>> /\ requests' = <<>>
    /\ answer' = NoAnswer

\* update_index, line 244: the hashes whose rows are to go
hashes_to_delete(new_shas, shas_in_db) == new_shas \ shas_in_db

shas_to_skip_none(shas_in_db) == {}

\* update_index, line 262: the hashes generate_index is told to skip
shas_to_skip(shas_in_db) == shas_in_db

\* update_index up to its first commit: the hashes in the table, the
\* digests of the files, the temporary table of hashes to delete
update_index_diff ==
    \E files \in FileLists :
        /\ Enter("update", files)
        /\ skip_shas' = shas_to_skip(Shas(rag))
        /\ deleted_shas' = hashes_to_delete(Digests(files), Shas(rag))
        /\ disk_rag' = rag
        /\ io' = <<"db_commit">>
        /\ pc' = "delete"
        /\ UNCHANGED <<rag, index, disk_index, max_id, opens, assigned, ck, bt, tr, cv, lm>>

\* update_index: the rows of those hashes leave the table and the index
update_index_delete ==
    /\ pc = "delete"
    /\ LET deleted_shas_ids == {r.id : r \in {x \in rag : x.file_sha \in deleted_shas}}
       IN  /\ rag' = {r \in rag : r.file_sha \notin deleted_shas}
           /\ index' = {e \in index : e.id \notin deleted_shas_ids}
    /\ pc' = "chunk"
    /\ UNCHANGED <<disk_rag, disk_index, max_id, opens, result, entry,
                   locals, requests, io, assigned, ck, bt, answer, tr, cv, lm>>

\* generate_index called by the user: nothing is skipped
generate_index_enter ==
    \E files \in FileLists :
        /\ Enter("generate", files)
        /\ skip_shas' = {} /\ deleted_shas' = {}
        /\ io' = <<>>
        /\ pc' = "chunk"
        /\ UNCHANGED <<store, opens, assigned, ck, bt, tr, cv, lm>>

\* generate_index: the chunks of the files
generate_index_chunk ==
    /\ pc = "chunk"
    /\ all_chunks' = get_all_chunks(call.files, skip_shas)
    /\ pc' = "embed"
    /\ UNCHANGED <<store, opens, result, entry, skip_shas, deleted_shas,
                   emb, ids, requests, io, assigned, ck, bt, answer, tr, cv, lm>>

\* generate_index: the embeddings; with none it returns at once
generate_index_embed ==
    /\ pc = "embed"
    /\ emb' = get_embeddings_batched([k \in 1..Len(all_chunks) |->
                                          all_chunks[k].text_chunk])
    /\ requests' = emb'.sent
    /\ IF emb'.none THEN pc' = "idle" /\ result' = "returned"
                    ELSE pc' = "insert" /\ result' = result
    /\ UNCHANGED <<store, opens, entry, skip_shas, deleted_shas,
                   all_chunks, ids, io, assigned, ck, bt, answer, tr, cv, lm>>

insert_do_commit_default == TRUE

\* generate_index, line 183: the rows are inserted without a commit each
insert_do_commit == FALSE

\* insert_db, lines 96-98: the id of the next row
next_id(m) == m + 1

\* generate_index: one turn of the loop over the chunks, that is one
\* insert_db; a taken id makes the INSERT, and with it the call, fail
generate_index_insert ==
    /\ pc = "insert" /\ Len(ids) < Len(all_chunks)
    /\ LET k == Len(ids) + 1
           chunk == all_chunks[k]
           embedding == IF emb.mask[k] THEN Null ELSE emb.rows[k]
           id == next_id(max_id)
       IN  /\ max_id' = id
           /\ assigned' = Append(assigned,
                             [id |-> id, chunk |-> chunk, open |-> opens])
           /\ IF id \in RowIds(rag)
              THEN /\ pc' = "idle" /\ result' = "raised"
                   /\ UNCHANGED <<rag, disk_rag, disk_index, ids, io>>
              ELSE /\ rag' = rag \cup {Row(id, chunk, embedding)}
                   /\ ids' = Append(ids, id)
                   /\ pc' = IF k = Len(all_chunks) THEN "add" ELSE "insert"
                   /\ result' = result
                   /\ IF insert_do_commit
                      THEN /\ disk_rag' = rag'
                           /\ disk_index' = [exists |-> TRUE, entries |-> index]
                           /\ io' = io \o <<"db_commit", "write_index">>
                      ELSE UNCHANGED <<disk_rag, disk_index, io>>
    /\ UNCHANGED <<index, opens, entry, skip_shas, deleted_shas,
                   all_chunks, emb, requests, ck, bt, answer, tr, cv, lm>>

indexed_positions_all(mask) == 1..Len(mask)

\* generate_index, lines 190-191: the rows that go into the index
indexed_positions(mask) == {k \in 1..Len(mask) : ~mask[k]}

\* generate_index: the embeddings that are not too long enter the index
generate_index_add ==
    /\ pc = "add"
    /\ index' = index \cup {[id |-> ids[k], vec |-> emb.rows[k]] :
                              k \in indexed_positions(emb.mask)}
    /\ pc' = "commit"
    /\ UNCHANGED <<rag, disk_rag, disk_index, max_id, opens, result, entry,
                   locals, requests, io, assigned, ck, bt, answer, tr, cv, lm>>

\* commit, line 200: the database commit
commit_db ==
    /\ pc = "commit"
    /\ disk_rag' = rag
    /\ io' = Append(io, "db_commit")
    /\ pc' = "write_index"
    /\ UNCHANGED <<rag, index, disk_index, max_id, opens, result, entry,
                   locals, requests, assigned, ck, bt, answer, tr, cv, lm>>

\* commit, line 201: the index is written; generate_index returns
commit_write_index ==
    /\ pc = "write_index"
    /\ disk_index' = [exists |-> TRUE, entries |-> index]
    /\ io' = Append(io, "write_index")
    /\ pc' = "idle" /\ result' = "returned"
    /\ UNCHANGED <<rag, disk_rag, index, max_id, opens, entry, locals,
                   requests, assigned, ck, bt, answer, tr, cv, lm>>

\* ---------------------------------------------------------------------- query
MaxK == 2

\* the texts a caller asks about: two chunk texts, a text of no file, and one
\* over the budget
QueryTexts == {<<"b">>, <<"c">>, <<"q">>, TooLong}

\* squared L2 distance of two provider vectors: zero between equal ones only
distance(u, v) == IF u = v THEN 0 ELSE 1

RECURSIVE nearest_unordered(_, _, _)
nearest_unordered(ix, q, n) ==
    IF n = 0 \/ ix = {} THEN {<<>>}
    ELSE UNION {{<<e>> \o rest : rest \in nearest_unordered(ix \ {e}, q, n - 1)} :
                e \in ix}

\* IndexFlatL2.search: the ways to list the n nearest entries of the index,
\* nearest first, entries at the same distance in any order
RECURSIVE nearest(_, _, _)
nearest(ix, q, n) ==
    IF n = 0 \/ ix = {} THEN {<<>>}
    ELSE UNION {{<<e>> \o rest : rest \in nearest(ix \ {e}, q, n - 1)} :
                e \in {x \in ix : \A y \in ix :
                                    distance(q, x.vec) <= distance(q, y.vec)}}

\* index.search(query_embedding, k): k ids, -1 where the index has no more
search(ix, q, k) ==
    {[ids |-> [i \in 1..k |-> IF i <= Len(found) THEN found[i].id ELSE -1],
      scores |-> [i \in 1..k |-> IF i <= Len(found)
                                 THEN distance(q, found[i].vec) ELSE 2]]
     : found \in nearest(ix, q, k)}

\* RAGDatabase.get_chunk_by_id: the chunk of the row, or None
get_chunk_by_id(table, id) ==
    IF id \in RowIds(table)
    THEN LET r == CHOOSE x \in table : x.id = id
         IN  [none |-> FALSE,
              chunk |-> TextChunk(r.text_chunk, r.file_path, r.start_line,
                                  r.end_line, r.file_sha)]
    ELSE [none |-> TRUE]

query_too_long_never(e) == FALSE

\* query, line 218: the embeddings came back as None
query_too_long(e) == e.none

\* RAGDatabase.query, one of the calls made on the store
query ==
    /\ pc = "idle" /\ calls < MaxCalls
    /\ calls' = calls + 1
    /\ \E text \in QueryTexts \cup {r.text_chunk : r \in rag},
          n_results \in 1..MaxK :
          LET e == get_embeddings_batched(<<text>>)
              asked == [NoAnswer EXCEPT !.query = text,
                                        !.n_results = n_results,
                                        !.sent = e.sent]
          IN  IF query_too_long(e)
              THEN answer' = [asked EXCEPT !.kind = "raised"]
              ELSE \E res \in search(index, e.rows[1], n_results) :
                      answer' =
                          [asked EXCEPT
                              !.kind = "returned",
                              !.ids = res.ids,
                              !.scores = res.scores,
                              !.chunks = [i \in 1..n_results |->
                                  get_chunk_by_id(rag, res.ids[i])]]
    /\ UNCHANGED <<store, opens, pc, result, call, prev, rag0, index0, locals,
                   requests, io, assigned, ck, bt, tr, cv, lm>>

Next ==
    \/ reopen
    \/ query
    \/ update_index_diff
    \/ update_index_delete
    \/ generate_index_enter
    \/ generate_index_chunk
    \/ generate_index_embed
    \/ generate_index_insert
    \/ generate_index_add
    \/ commit_db
    \/ commit_write_index

Spec == Init /\ [][Next]_vars

\* ------------------------------------------------- insert_db called directly
\* insert_db, line 93: the default of add_to_index
insert_add_to_index == FALSE

\* the chunks a caller may hand to insert_db, with their embedding or None
InsertChunks == {TextChunk(<<"q">>, "A", 0, 1, sha1(V2)),
                 TextChunk(<<"b">>, "B", 1, 2, sha1(V1))}

\* RAGDatabase.insert_db with its default arguments: the row, no index
\* entry unless add_to_index, then commit
insert_db ==
    /\ pc = "idle" /\ calls < MaxCalls
    /\ calls' = calls + 1
    /\ call' = [kind |-> "insert", files |-> <<>>] /\ prev' = call
    /\ rag0' = rag /\ index0' = index
    /\ requests' = <<>> /\ answer' = NoAnswer
    /\ \E chunk \in InsertChunks :
       \E embedding \in {Embed(chunk.text_chunk), Null} :
          LET id == next_id(max_id)
              added == IF embedding # Null /\ insert_add_to_index
                       THEN {[id |-> id, vec |-> embedding]} ELSE {}
          IN  /\ max_id' = id
              /\ assigned' = Append(assigned,
                                [id |-> id, chunk |-> chunk, open |-> opens])
              /\ all_chunks' = <<chunk>>
              /\ emb' = [none |-> FALSE, rows |-> <<embedding>>,
                         mask |-> <<embedding = Null>>, sent |-> <<>>]
              /\ IF id \in RowIds(rag)
                 THEN /\ result' = "raised" /\ ids' = <<>> /\ io' = <<>>
                      /\ UNCHANGED <<rag, index, disk_rag, disk_index>>
                 ELSE /\ result' = "returned" /\ ids' = <<id>>
                      /\ rag' = rag \cup {Row(id, chunk, embedding)}
                      /\ index' = index \cup added
                      /\ disk_rag' = rag'
                      /\ disk_index' = [exists |-> TRUE, entries |-> index']
                      /\ io' = <<"db_commit", "write_index">>
    /\ UNCHANGED <<opens, pc, skip_shas, deleted_shas, ck, bt, tr, cv, lm>>

InsertNext ==
    \/ insert_db
    \/ Next

InsertSpec == Init /\ [][InsertNext]_vars

TypeOK ==
    /\ pc \in {"idle", "delete", "chunk", "embed", "insert", "add", "commit",
               "write_index"}
    /\ result \in {"none", "returned", "raised"}
    /\ max_id \in Nat /\ opens \in 1..MaxOpens /\ calls \in 0..MaxCalls

\* ------------------------------------------------- get_chunks on its own
\* a text file of n lines, each its own number, the last one terminated or not
NumberedLines(n) == [i \in 1..n |-> <<ToString(i - 1)>>]
TextFile(n, terminated) ==
    join(NumberedLines(n)) \o (IF terminated /\ n > 0 THEN <<NL>> ELSE <<>>)

ChunkerFiles ==
    {TextFile(n, t) : n \in 0..MaxLines, t \in BOOLEAN}
    \cup {TextFile(n, TRUE) \o <<BadByte>> : n \in 0..MaxLines}

ChunkerName == "A"

ChunkerInit ==
    /\ rag = {} /\ disk_rag = {}
    /\ index = {} /\ disk_index = [exists |-> FALSE, entries |-> {}]
    /\ max_id = 0 /\ opens = 1
    /\ pc = "idle" /\ result = "none" /\ calls = 0
    /\ call = NoCall /\ prev = NoCall
    /\ skip_shas = {} /\ deleted_shas = {}
    /\ all_chunks = <<>> /\ emb = NoEmb /\ ids = <<>>
    /\ requests = <<>> /\ io = <<>>
    /\ rag0 = {} /\ index0 = {}
    /\ assigned = <<>>
    /\ answer = NoAnswer
    /\ tr = NoTruncation /\ cv = NoConversation /\ lm = NoLimiters
    /\ bt = NoBatcher
    /\ \E file \in ChunkerFiles, size \in 1..MaxChunkSize :
         \E ovl \in 0..(size - 1) :
            ck = [pc |-> "read", file |-> file, size |-> size, ovl |-> ovl,
                  lines |-> <<>>, out |-> <<>>]

\* get_chunks, lines 122-128: the lines of the file, or nothing for a file
\* that is no text
get_chunks_read ==
    /\ ck.pc = "read"
    /\ ck' = IF Decodable(ck.file)
             THEN [ck EXCEPT !.pc = "loop", !.lines = splitlines(ck.file)]
             ELSE [ck EXCEPT !.pc = "done"]
    /\ UNCHANGED <<main, bt, tr, cv, lm>>

\* get_chunks, lines 131-134: the next chunk
get_chunks_yield ==
    /\ ck.pc = "loop"
    /\ Len(ck.out) < Len(chunk_starts(Len(ck.lines), ck.size - ck.ovl))
    /\ ck' = [ck EXCEPT !.out = Append(@,
                 nth_chunk(ck.lines, Len(ck.out) + 1, ck.size, ck.ovl,
                           ChunkerName, sha1(ck.file)))]
    /\ UNCHANGED <<main, bt, tr, cv, lm>>

\* get_chunks: the range is exhausted
get_chunks_stop ==
    /\ ck.pc = "loop"
    /\ Len(ck.out) = Len(chunk_starts(Len(ck.lines), ck.size - ck.ovl))
    /\ ck' = [ck EXCEPT !.pc = "done"]
    /\ UNCHANGED <<main, bt, tr, cv, lm>>

ChunkerNext ==
    \/ get_chunks_read
    \/ get_chunks_yield
    \/ get_chunks_stop

ChunkerSpec == ChunkerInit /\ [][ChunkerNext]_vars

\* ------------------------------------- get_embeddings_batched, step by step
MaxInputs == 3
rate_limit == 2       \* the limiter's period, in ticks of the clock
max_retries == 5

\* the token counts of the texts given: up to the budget, around its edge
Sizes == {1, 2, max_n_tokens - 1, max_n_tokens}
CostLists == UNION {[1..n -> Sizes] : n \in 0..MaxInputs}
ExampleCase == [costs |-> <<40, 40, 40, 40>>, max |-> 100]
BatchCases == {[costs |-> c, max |-> max_n_tokens] : c \in CostLists}
              \cup {ExampleCase}

\* the i-th text of a call: costs[i] tokens, each naming the position
TextsOf(costs) == [i \in 1..Len(costs) |-> [j \in 1..costs[i] |-> i]]

too_long_above(n_tokens, limit) == n_tokens > limit

\* get_embeddings_batched, line 53
too_long(n_tokens, limit) == n_tokens >= limit

closes_batch_above(current_batch_size, next_in_size, limit) ==
    current_batch_size + next_in_size > limit

\* get_embeddings_batched_filtered, line 79
closes_batch(current_batch_size, next_in_size, limit) ==
    current_batch_size + next_in_size >= limit

batch_after_send_kept(current_batch) == current_batch

\* get_embeddings_batched_filtered, line 81
batch_after_send(current_batch) == <<>>

attempts_left_one_more(attempt) == attempt <= max_retries

\* get_batch_embeddings, line 100: range(max_retries) has another turn
attempts_left(attempt) == attempt < max_retries

reraised_never(status_code) == FALSE

\* get_batch_embeddings, line 104
reraised(status_code) == status_code # 429

sleep_needed_never(elapsed, limit) == 0

\* RateLimiter.__enter__, lines 30-33: how long it sleeps
sleep_needed(elapsed, limit) == IF elapsed < limit THEN limit - elapsed ELSE 0

\* what the provider may answer to a request
Responses == {200, 429, 500}

\* EmbeddingModel.__init__ with its limiter, new or handed in after use, and
\* the call of get_embeddings_batched on the texts of one case
BatchInit ==
    /\ rag = {} /\ disk_rag = {}
    /\ index = {} /\ disk_index = [exists |-> FALSE, entries |-> {}]
    /\ max_id = 0 /\ opens = 1
    /\ pc = "idle" /\ result = "none" /\ calls = 0
    /\ call = NoCall /\ prev = NoCall
    /\ skip_shas = {} /\ deleted_shas = {}
    /\ all_chunks = <<>> /\ emb = NoEmb /\ ids = <<>>
    /\ requests = <<>> /\ io = <<>>
    /\ rag0 = {} /\ index0 = {}
    /\ assigned = <<>>
    /\ answer = NoAnswer
    /\ tr = NoTruncation /\ cv = NoConversation /\ lm = NoLimiters
    /\ ck = NoChunker
    /\ \E case \in BatchCases, used \in BOOLEAN :
          bt = [pc |-> "filter", inputs |-> TextsOf(case.costs),
                max |-> case.max,
                used |-> used,          \* the limiter's last_call_time is set
                mask |-> <<>>, filtered |-> <<>>,
                cursor |-> 0,           \* next_in is filtered[cursor]
                current_batch |-> <<>>, current_batch_size |-> 0,
                batch_results |-> <<>>,
                after |-> "loop",       \* where get_batch_embeddings returns to
                attempt |-> 0,          \* turns of its for loop taken
                sent |-> <<>>,          \* its calls: [batch, requests, limited]
                delayed |-> TRUE,       \* the limiter had been used at __enter__
                elapsed |-> 0,          \* from the last __exit__ to this block
                since_429 |-> 0,        \* from the failed attempt to this block
                status_code |-> 0, outcome |-> "running",
                none |-> FALSE, rows |-> <<>>]

\* get_embeddings_batched, lines 52-57, and lines 69-75 of
\* get_embeddings_batched_filtered
batched_filter ==
    /\ bt.pc = "filter"
    /\ LET mask == [i \in 1..Len(bt.inputs) |->
                      too_long(get_n_tokens(bt.inputs[i]), bt.max)]
           picked == {i \in 1..Len(bt.inputs) : ~mask[i]}
           nth(k) == CHOOSE i \in picked :
                         Cardinality({j \in picked : j < i}) = k - 1
           filtered == [k \in 1..Cardinality(picked) |-> bt.inputs[nth(k)]]
       IN  bt' = IF Len(filtered) = 0
                 THEN [bt EXCEPT !.pc = "done", !.mask = mask,
                                 !.outcome = "returned", !.none = TRUE]
                 ELSE [bt EXCEPT !.pc = "loop", !.mask = mask,
                                 !.filtered = filtered, !.cursor = 1]
    /\ UNCHANGED <<main, ck, tr, cv, lm>>

\* get_embeddings_batched_filtered, lines 78-80: the batch is full, send it
filtered_send ==
    /\ bt.pc = "loop"
    /\ closes_batch(bt.current_batch_size,
                    get_n_tokens(bt.filtered[bt.cursor]), bt.max)
    /\ bt' = [bt EXCEPT !.pc = "try", !.after = "loop", !.attempt = 0,
                !.sent = Append(@, [batch |-> bt.current_batch,
                                    requests |-> 0, limited |-> 0])]
    /\ UNCHANGED <<main, ck, tr, cv, lm>>

\* lines 83-87: the text joins the batch and another one follows
filtered_append ==
    /\ bt.pc = "loop"
    /\ ~closes_batch(bt.current_batch_size,
                     get_n_tokens(bt.filtered[bt.cursor]), bt.max)
    /\ bt.cursor < Len(bt.filtered)
    /\ bt' = [bt EXCEPT
                !.current_batch = Append(@, bt.filtered[bt.cursor]),
                !.current_batch_size = @ + get_n_tokens(bt.filtered[bt.cursor]),
                !.cursor = @ + 1]
    /\ UNCHANGED <<main, ck, tr, cv, lm>>

\* lines 83-90: the text joins the batch and was the last one
filtered_exhausted ==
    /\ bt.pc = "loop"
    /\ ~closes_batch(bt.current_batch_size,
                     get_n_tokens(bt.filtered[bt.cursor]), bt.max)
    /\ bt.cursor = Len(bt.filtered)
    /\ LET batch == Append(bt.current_batch, bt.filtered[bt.cursor])
       IN  bt' = [bt EXCEPT
                    !.pc = "try", !.after = "break", !.attempt = 0,
                    !.current_batch = batch,
                    !.current_batch_size =
                        @ + get_n_tokens(bt.filtered[bt.cursor]),
                    !.sent = Append(@, [batch |-> batch,
                                        requests |-> 0, limited |-> 0])]
    /\ UNCHANGED <<main, ck, tr, cv, lm>>

\* the idle time the caller may spend before it comes to the limiter: too
\* short for the limiter to let it through, or just enough
Idle == 0..rate_limit
FailCap == 3 * rate_limit          \* since_429 is counted up to here

\* RateLimiter.__enter__ after idle ticks since its last __exit__: it sleeps
\* when it has been used and less than rate_limit has gone by
limiter_enter(b, idle, retrying) ==
    LET slept == IF b.used THEN sleep_needed(idle, rate_limit) ELSE 0
    IN  [b EXCEPT !.delayed = b.used,
                  !.elapsed = idle + slept,
                  !.since_429 = IF retrying THEN Min(FailCap, @ + idle + slept)
                                ELSE 0]

\* RateLimiter.__exit__, lines 36-38: last_call_time is set, error or not
limiter_exit(b) == [b EXCEPT !.used = TRUE, !.elapsed = 0, !.delayed = TRUE]

\* get_batch_embeddings, lines 100-102, up to __enter__ of line 117
get_batch_embeddings_try ==
    /\ bt.pc = "try"
    /\ attempts_left(bt.attempt)
    /\ \E idle \in Idle :
          bt' = [limiter_enter(bt, idle, bt.attempt > 0) EXCEPT
                    !.pc = "request", !.attempt = @ + 1]
    /\ UNCHANGED <<main, ck, tr, cv, lm>>

\* lines 111-112: the for loop ran out, RuntimeError
get_batch_embeddings_exhausted ==
    /\ bt.pc = "try"
    /\ ~attempts_left(bt.attempt)
    /\ bt' = [bt EXCEPT !.pc = "done", !.outcome = "RuntimeError",
                        !.since_429 = 0]
    /\ UNCHANGED <<main, ck, tr, cv, lm>>

requested(b) ==
    [b EXCEPT !.sent[Len(b.sent)].requests = @ + 1]

\* _get_batch_embeddings, lines 117-122: the provider answers with the
\* vectors, which are returned to line 80 or to line 89
provider_ok ==
    /\ bt.pc = "request"
    /\ LET b == limiter_exit(requested(bt))
           batch == bt.sent[Len(bt.sent)].batch
       IN  bt' = [b EXCEPT
                    !.since_429 = 0,
                    !.batch_results = Append(@, get_batch_embeddings(batch)),
                    !.current_batch =
                        IF bt.after = "loop" THEN batch_after_send(@) ELSE @,
                    !.current_batch_size =
                        IF bt.after = "loop" THEN 0 ELSE @,
                    !.pc = IF bt.after = "loop" THEN "loop" ELSE "concat"]
    /\ UNCHANGED <<main, ck, tr, cv, lm>>

\* lines 103-105: the provider fails with another status than 429
provider_failed ==
    /\ bt.pc = "request"
    /\ \E status_code \in Responses \ {200} :
          /\ reraised(status_code)
          /\ bt' = [limiter_exit(requested(bt)) EXCEPT
                      !.pc = "done", !.outcome = "SDKError",
                      !.status_code = status_code, !.since_429 = 0]
    /\ UNCHANGED <<main, ck, tr, cv, lm>>

\* lines 103-107: the provider answers 429
provider_rate_limited ==
    /\ bt.pc = "request"
    /\ \E status_code \in Responses \ {200} :
          /\ ~reraised(status_code)
          /\ bt' = [limiter_exit(requested(bt)) EXCEPT
                      !.pc = "backoff1", !.status_code = status_code,
                      !.sent[Len(bt.sent)].limited = @ + 1,
                      !.since_429 = 0]
    /\ UNCHANGED <<main, ck, tr, cv, lm>>

\* lines 109 and 110: an empty block under the limiter, twice
get_batch_embeddings_wait ==
    /\ bt.pc \in {"backoff1", "backoff2"}
    /\ \E idle \in Idle :
          bt' = [limiter_exit(limiter_enter(bt, idle, TRUE)) EXCEPT
                    !.pc = IF bt.pc = "backoff1" THEN "backoff2" ELSE "try"]
    /\ UNCHANGED <<main, ck, tr, cv, lm>>

\* line 92 and get_embeddings_batched, lines 58-61
batched_return ==
    /\ bt.pc = "concat"
    /\ LET embeddings_filtered == concatenate(bt.batch_results)
           rank(i) == Cardinality({j \in 1..i : ~bt.mask[j]})
       IN  bt' = [bt EXCEPT
                    !.pc = "done", !.outcome = "returned",
                    !.rows = [i \in 1..Len(bt.inputs) |->
                                IF bt.mask[i] THEN Zeros
                                ELSE embeddings_filtered[rank(i)]]]
    /\ UNCHANGED <<main, ck, tr, cv, lm>>

BatchNext ==
    \/ batched_filter
    \/ filtered_send
    \/ filtered_append
    \/ filtered_exhausted
    \/ get_batch_embeddings_try
    \/ get_batch_embeddings_exhausted
    \/ provider_ok
    \/ provider_failed
    \/ provider_rate_limited
    \/ get_batch_embeddings_wait
    \/ batched_return

BatchSpec == BatchInit /\ [][BatchNext]_vars

\* the same calls when no step that can be taken is put off for ever: the
\* provider answers every request, a sleep ends
BatchFairSpec == BatchSpec /\ WF_vars(BatchNext)

BatchTypeOK ==
    /\ bt.pc \in {"filter", "loop", "try", "request", "backoff1", "backoff2",
                  "concat", "done"}
    /\ bt.outcome \in {"running", "returned", "RuntimeError", "SDKError"}
    /\ (bt.pc = "done") = (bt.outcome # "running")
    /\ bt.attempt \in 0..(max_retries + 1)
    /\ bt.elapsed \in 0..rate_limit
    /\ bt.since_429 \in 0..FailCap
    /\ bt.cursor \in 0..Len(bt.filtered)

\* -------------------------------------------- truncation of the diff text
MaxItems == 3
MaxSmallTotal == 16
MaxTotal == 50
MinItemLen == 35      \* the header of a one-letter file and the closing "\n"

RECURSIVE Sum(_)
Sum(lengths) == IF lengths = <<>> THEN 0 ELSE Head(lengths) + Sum(Tail(lengths))

RECURSIVE Insert(_, _)
Insert(x, sorted) ==
    IF sorted = <<>> THEN <<x>>
    ELSE IF x <= Head(sorted) THEN <<x>> \o sorted
    ELSE <<Head(sorted)>> \o Insert(x, Tail(sorted))

RECURSIVE Sorted(_)
Sorted(lengths) ==
    IF lengths = <<>> THEN <<>> ELSE Insert(Head(lengths), Sorted(Tail(lengths)))

\* the segments of t |-> sum(min(l, t)), shortest length first: with the
\* lengths before `rest` kept whole, the cap the budget left allows to the
\* others, taken if it is below the next length
RECURSIVE cap_from_unfloored(_, _)
cap_from_unfloored(rest, left) ==
    LET t == (left + Len(rest) - 1) \div Len(rest)
    IN  IF t < Head(rest) \/ Len(rest) = 1 THEN t
        ELSE cap_from_unfloored(Tail(rest), left - Head(rest))

RECURSIVE cap_from(_, _)
cap_from(rest, left) ==
    LET t == left \div Len(rest)
    IN  IF t < Head(rest) THEN t ELSE cap_from(Tail(rest), left - Head(rest))

\* compute_truncation: None when the lengths fit, else the cap
compute_truncation(lengths, max_total) ==
    IF Sum(lengths) <= max_total THEN [none |-> TRUE, t |-> 0]
    ELSE [none |-> FALSE, t |-> cap_from(Sorted(lengths), max_total)]

\* the marker that ends an item that was cut
truncated_str == <<"\n", "[", ".", ".", ".", "]", "\n">>

\* s[:k] of Python: a negative k counts from the end
slice_to(s, k) ==
    LET n == IF k >= 0 THEN Min(k, Len(s))
             ELSE IF Len(s) + k > 0 THEN Len(s) + k ELSE 0
    IN  SubSeq(s, 1, n)

\* diff_all_files, lines 247-251
truncate(s, t) ==
    IF t.none THEN s
    ELSE IF Len(s) <= t.t THEN s
    ELSE slice_to(s, t.t - Len(truncated_str)) \o truncated_str

\* the lengths compute_truncation is given on its own, with the examples
SmallLens == {0, 1, 3, 5, 10}
Examples == {[lengths |-> <<3, 10, 10>>, max_total |-> 15],
             [lengths |-> <<5, 5, 5>>, max_total |-> 100]}
ComputeCases ==
    {[lengths |-> l, max_total |-> m] :
        l \in UNION {[1..n -> SmallLens] : n \in 0..MaxItems},
        m \in 0..MaxSmallTotal} \cup Examples

\* the items diff_all_files builds: a header, the content, "\n"
ItemLens == {MinItemLen, MinItemLen + 1, MinItemLen + 10}
ItemOf(i, len) == [j \in 1..len |-> i]
DiffCases ==
    {[items |-> [i \in 1..Len(l) |-> ItemOf(i, l[i])], max_total_size |-> m] :
        l \in UNION {[1..n -> ItemLens] : n \in 0..MaxItems},
        m \in 0..MaxTotal}

NoCap == [none |-> TRUE, t |-> 0]

\* a call of compute_truncation, or diff_all_files with its items built
TruncInit ==
    /\ rag = {} /\ disk_rag = {}
    /\ index = {} /\ disk_index = [exists |-> FALSE, entries |-> {}]
    /\ max_id = 0 /\ opens = 1
    /\ pc = "idle" /\ result = "none" /\ calls = 0
    /\ call = NoCall /\ prev = NoCall
    /\ skip_shas = {} /\ deleted_shas = {}
    /\ all_chunks = <<>> /\ emb = NoEmb /\ ids = <<>>
    /\ requests = <<>> /\ io = <<>>
    /\ rag0 = {} /\ index0 = {}
    /\ assigned = <<>>
    /\ answer = NoAnswer
    /\ ck = NoChunker /\ bt = NoBatcher /\ cv = NoConversation /\ lm = NoLimiters
    /\ \/ \E c \in ComputeCases :
             tr = [pc |-> "call", lengths |-> c.lengths,
                   max_total |-> c.max_total, all_file_info |-> <<>>,
                   truncation |-> NoCap, cut |-> <<>>, return_data |-> <<>>]
       \/ \E c \in DiffCases :
             tr = [pc |-> "lengths", lengths |-> <<>>,
                   max_total |-> c.max_total_size, all_file_info |-> c.items,
                   truncation |-> NoCap, cut |-> <<>>, return_data |-> <<>>]

\* compute_truncation called on its own
compute_truncation_call ==
    /\ tr.pc = "call"
    /\ tr' = [tr EXCEPT !.pc = "done",
                !.truncation = compute_truncation(tr.lengths, tr.max_total)]
    /\ UNCHANGED <<main, ck, bt, cv, lm>>

\* diff_all_files, lines 245-246
diff_all_files_lengths ==
    /\ tr.pc = "lengths"
    /\ LET all_file_info_len ==
              [i \in DOMAIN tr.all_file_info |-> Len(tr.all_file_info[i])]
       IN  tr' = [tr EXCEPT
                    !.pc = "truncate", !.lengths = all_file_info_len,
                    !.truncation =
                        compute_truncation(all_file_info_len, tr.max_total)]
    /\ UNCHANGED <<main, ck, bt, cv, lm>>

\* lines 252-253
diff_all_files_truncate ==
    /\ tr.pc = "truncate"
    /\ tr' = [tr EXCEPT
                !.pc = "write",
                !.cut = IF tr.truncation.none THEN tr.all_file_info
                        ELSE [i \in DOMAIN tr.all_file_info |->
                                truncate(tr.all_file_info[i], tr.truncation)]]
    /\ UNCHANGED <<main, ck, bt, cv, lm>>

\* lines 255-259
diff_all_files_return ==
    /\ tr.pc = "write"
    /\ tr' = [tr EXCEPT !.pc = "done", !.return_data = concatenate(tr.cut)]
    /\ UNCHANGED <<main, ck, bt, cv, lm>>

TruncNext ==
    \/ compute_truncation_call
    \/ diff_all_files_lengths
    \/ diff_all_files_truncate
    \/ diff_all_files_return

TruncSpec == TruncInit /\ [][TruncNext]_vars

TruncTypeOK ==
    /\ tr.pc \in {"call", "lengths", "truncate", "write", "done"}
    /\ tr.truncation.none \in BOOLEAN
    /\ tr.truncation.t \in 0..tr.max_total

\* ------------------------------------------- a failing embedding provider
\* get_batch_embeddings, lines 95-112: what get_embeddings_batched raises,
\* RuntimeError once max_retries attempts were rate limited, the provider's
\* SDKError for any other status
EmbeddingFailures == {"RuntimeError", "SDKError"}

caught_always(e) == TRUE

\* generate_index, lines 170-175, and update_index, line 262: no except
\* clause stands between get_embeddings_batched and the caller
caught(e) == FALSE

\* generate_index, line 174, when the provider fails on one of the batches:
\* the batches before it were answered, the exception leaves the call
generate_index_embed_raises ==
    /\ pc = "embed"
    /\ LET full == get_embeddings_batched([k \in 1..Len(all_chunks) |->
                                              all_chunks[k].text_chunk])
       IN  /\ Len(full.sent) > 0
           /\ \E k \in 1..Len(full.sent), e \in EmbeddingFailures :
                 /\ requests' = SubSeq(full.sent, 1, k)
                 /\ result' = e
                 /\ IF caught(e) THEN pc' = "insert" /\ emb' = full
                                 ELSE pc' = "idle" /\ emb' = emb
    /\ UNCHANGED <<store, opens, entry, skip_shas, deleted_shas,
                   all_chunks, ids, io, assigned, ck, bt, answer, tr, cv, lm>>

FailNext == generate_index_embed_raises \/ Next

FailSpec == Init /\ [][FailNext]_vars

\* ------------------------------------------------------- ModelConversation
MaxMessages == 3
n_retries == 3
Instances == {1, 2}          \* the conversations a program may construct

\* ModelConversation.messages, line 28: a list made once, in the class body;
\* __init__ gives the instance no list of its own, so self.messages is that
\* one list for every instance
messages_of(c, i) == c.messages

Message(role, by, from_model) ==
    [role |-> role, by |-> by, from_model |-> from_model]

\* changes_sync_state(state) around a block that did not raise
synced_after(state) == state

\* an instance: its synced flag, and for the record whether an API call of
\* it has succeeded, whether it has appended a message of its caller or of a
\* tool since, and whether it was constructed with a system prompt
NewInstance(c, with_prompt) ==
    [synced |-> FALSE, had_success |-> FALSE, dirty |-> FALSE,
     with_prompt |-> with_prompt]

NoOp == [op |-> "none", obj |-> 0, outcome |-> "none", attempts |-> 0,
         synced_before |-> FALSE, dirty_before |-> FALSE,
         had_success_before |-> FALSE]

did(c, i, op, outcome, attempts) ==
    [op |-> op, obj |-> i, outcome |-> outcome, attempts |-> attempts,
     synced_before |-> c.objs[i].synced,
     dirty_before |-> c.objs[i].dirty,
     had_success_before |-> c.objs[i].had_success]

\* self.messages.append(message) under changes_sync_state(False)
append_unsynced(c, i, role) ==
    [c EXCEPT !.messages = Append(@, Message(role, i, FALSE)),
              !.objs[i].synced = synced_after(FALSE),
              !.objs[i].dirty = TRUE]

ConvInit ==
    /\ rag = {} /\ disk_rag = {}
    /\ index = {} /\ disk_index = [exists |-> FALSE, entries |-> {}]
    /\ max_id = 0 /\ opens = 1
    /\ pc = "idle" /\ result = "none" /\ calls = 0
    /\ call = NoCall /\ prev = NoCall
    /\ skip_shas = {} /\ deleted_shas = {}
    /\ all_chunks = <<>> /\ emb = NoEmb /\ ids = <<>>
    /\ requests = <<>> /\ io = <<>>
    /\ rag0 = {} /\ index0 = {}
    /\ assigned = <<>>
    /\ answer = NoAnswer
    /\ ck = NoChunker /\ bt = NoBatcher /\ tr = NoTruncation
    /\ cv = [messages |-> <<>>, objs |-> <<>>, last |-> NoOp]
    /\ lm = NoLimiters

\* ModelConversation.__init__, with or without a system prompt
construct ==
    /\ Len(cv.objs) < Cardinality(Instances)
    /\ \E with_prompt \in BOOLEAN :
          /\ with_prompt => Len(cv.messages) < MaxMessages
          /\ LET i == Len(cv.objs) + 1
                 made == [cv EXCEPT
                            !.objs = Append(@, NewInstance(cv, with_prompt))]
                 c == IF with_prompt THEN append_unsynced(made, i, "system")
                      ELSE made
             IN  cv' = [c EXCEPT !.last = did(made, i, "init", "ok", 0)]
    /\ UNCHANGED <<main, ck, bt, tr, lm>>

\* add_system_prompt, add_message, add_prefix
add ==
    /\ Len(cv.messages) < MaxMessages
    /\ \E i \in DOMAIN cv.objs, role \in {"system", "user", "prefix"} :
          cv' = [append_unsynced(cv, i, role) EXCEPT
                    !.last = did(cv, i, "add", "ok", 0)]
    /\ UNCHANGED <<main, ck, bt, tr, lm>>

\* what a tool call of a response does: the tool returns or raises
ToolCalls == {"none", "returns", "raises"}

room(tool) == IF tool = "returns" THEN 2 ELSE 1

\* handle_response: the message is appended as it is, outside
\* changes_sync_state; each tool call is run and its result appended under
\* changes_sync_state(False); a tool that raises ends the handler
handle_response(c, i, from_model, tool) ==
    LET got == [c EXCEPT
                  !.messages = Append(@, Message("assistant", i, from_model)),
                  !.objs[i].dirty = IF from_model THEN @ ELSE TRUE]
    IN  IF tool = "returns" THEN append_unsynced(got, i, "tool") ELSE got

handled(tool) == IF tool = "raises" THEN "ToolError" ELSE "ok"

simulate_assistant_message ==
    /\ \E i \in DOMAIN cv.objs, tool \in ToolCalls :
          /\ Len(cv.messages) + room(tool) <= MaxMessages
          /\ cv' = [handle_response(cv, i, FALSE, tool) EXCEPT
                      !.last = did(cv, i, "simulate", handled(tool), 0)]
    /\ UNCHANGED <<main, ck, bt, tr, lm>>

\* _inner_send: up to n_retries attempts; an attempt returns the response
\* (changes_sync_state(True) leaves synced True), raises a non-429 SDKError
\* (synced False, re-raised) or is rate limited (synced False, next attempt);
\* after n_retries rate-limited attempts the loop ends and None is returned
Attempts == 1..n_retries

inner_send_returned(c, i) ==
    [c EXCEPT !.objs[i].synced = synced_after(TRUE),
              !.objs[i].had_success = TRUE,
              !.objs[i].dirty = FALSE]

inner_send_failed(c, i) == [c EXCEPT !.objs[i].synced = FALSE]

\* send: refuses when synced; otherwise _inner_send, the assertion on its
\* result, then handle_response on the model's message
send ==
    /\ \E i \in DOMAIN cv.objs :
          \/ /\ cv.objs[i].synced
             /\ cv' = [cv EXCEPT !.last = did(cv, i, "send", "ValueError", 0)]
          \/ /\ ~cv.objs[i].synced
             /\ \E k \in Attempts :
                   cv' = [inner_send_failed(cv, i) EXCEPT
                            !.last = did(cv, i, "send", "SDKError", k)]
          \/ /\ ~cv.objs[i].synced
             /\ cv' = [inner_send_failed(cv, i) EXCEPT
                         !.last = did(cv, i, "send", "AssertionError",
                                      n_retries)]
          \/ /\ ~cv.objs[i].synced
             /\ \E k \in Attempts, tool \in ToolCalls :
                   /\ Len(cv.messages) + room(tool) <= MaxMessages
                   /\ cv' = [handle_response(inner_send_returned(cv, i),
                                             i, TRUE, tool) EXCEPT
                               !.last = did(cv, i, "send", handled(tool), k)]
    /\ UNCHANGED <<main, ck, bt, tr, lm>>

ConvNext == construct \/ add \/ simulate_assistant_message \/ send

ConvSpec == ConvInit /\ [][ConvNext]_vars

ConvTypeOK ==
    /\ Len(cv.messages) <= MaxMessages
    /\ Len(cv.objs) <= Cardinality(Instances)
    /\ \A i \in DOMAIN cv.objs : cv.objs[i].synced \in BOOLEAN

\* ------------------------------------------ the limiters of a RAGDatabase
MaxRequests == 3
default_rate_limit == 1      \* EmbeddingModel's own default, shorter here
                             \* than the interval the database was given

\* RateLimiter.__init__: last_call_time is None
Fresh == [used |-> FALSE, elapsed |-> 0]

\* the interval of each limiter: the database's is RAGDatabase.rate_limit,
\* an EmbeddingModel made without one takes the default
interval(name) == IF name = "db" THEN rate_limit ELSE default_rate_limit

\* generate_index, lines 170-171: the EmbeddingModel is given no rate_limit
\* and makes a limiter of its own
index_limiter == "own"

\* query, lines 214-216: rate_limit=self.rate_limit
query_limiter == "db"

\* RateLimiter.__enter__: the time slept
sleep_time(l, name) ==
    IF l.used /\ l.elapsed < interval(name) THEN interval(name) - l.elapsed
    ELSE 0

\* the clock moves on by d; what is past the longest interval is not counted
later(l, d) == [l EXCEPT !.elapsed = Min(@ + d, rate_limit)]

\* RateLimiter.__exit__: last_call_time = now
used_now == [used |-> TRUE, elapsed |-> 0]

LimitInit ==
    /\ rag = {} /\ disk_rag = {}
    /\ index = {} /\ disk_index = [exists |-> FALSE, entries |-> {}]
    /\ max_id = 0 /\ opens = 1
    /\ pc = "idle" /\ result = "none" /\ calls = 0
    /\ call = NoCall /\ prev = NoCall
    /\ skip_shas = {} /\ deleted_shas = {}
    /\ all_chunks = <<>> /\ emb = NoEmb /\ ids = <<>>
    /\ requests = <<>> /\ io = <<>>
    /\ rag0 = {} /\ index0 = {}
    /\ assigned = <<>>
    /\ answer = NoAnswer
    /\ ck = NoChunker /\ bt = NoBatcher /\ tr = NoTruncation
    /\ cv = NoConversation
    /\ lm = [pc |-> "idle",
             limiters |-> [name \in {"db", "own"} |-> Fresh],
             since |-> Fresh, log |-> <<>>]

\* one embedding request of the database through the limiter of that name:
\* __enter__ sleeps, the request is made, __exit__ notes the time
request(l, kind, name) ==
    LET d == sleep_time(l.limiters[name], name)
        now == later(l.since, d)
    IN  [l EXCEPT
           !.limiters = [n \in DOMAIN @ |->
                           IF n = name THEN used_now ELSE later(@[n], d)],
           !.since = used_now,
           !.log = Append(@, [call |-> kind, limiter |-> name,
                              first |-> ~now.used, gap |-> now.elapsed])]

\* generate_index, lines 170-171
limit_index_open ==
    /\ lm.pc = "idle"
    /\ lm' = [lm EXCEPT !.pc = "indexing",
                        !.limiters[index_limiter] =
                            IF index_limiter = "db" THEN @ ELSE Fresh]
    /\ UNCHANGED <<main, ck, bt, tr, cv>>

\* a batch of the indexing call
limit_index_request ==
    /\ lm.pc = "indexing" /\ Len(lm.log) < MaxRequests
    /\ lm' = request(lm, "index", index_limiter)
    /\ UNCHANGED <<main, ck, bt, tr, cv>>

limit_index_close ==
    /\ lm.pc = "indexing"
    /\ lm' = [lm EXCEPT !.pc = "idle"]
    /\ UNCHANGED <<main, ck, bt, tr, cv>>

\* query, lines 214-217: its one request
limit_query ==
    /\ lm.pc = "idle" /\ Len(lm.log) < MaxRequests
    /\ lm' = request(lm, "query", query_limiter)
    /\ UNCHANGED <<main, ck, bt, tr, cv>>

\* time passes between two statements
limit_tick ==
    /\ lm.since.elapsed < rate_limit
    /\ lm' = [lm EXCEPT
                !.limiters = [n \in DOMAIN @ |-> later(@[n], 1)],
                !.since = later(@, 1)]
    /\ UNCHANGED <<main, ck, bt, tr, cv>>

LimitNext ==
    \/ limit_index_open \/ limit_index_request \/ limit_index_close
    \/ limit_query \/ limit_tick

LimitSpec == LimitInit /\ [][LimitNext]_vars

LimitTypeOK ==
    /\ lm.pc \in {"idle", "indexing"}
    /\ Len(lm.log) <= MaxRequests
    /\ \A n \in DOMAIN lm.limiters : lm.limiters[n].elapsed \in 0..rate_limit

\* ------------------------------------------------------------------ claims
Returned(kind) == pc = "idle" /\ result = "returned" /\ call.kind = kind
EmbeddedIds(table) == {r.id : r \in {x \in table : x.embedding # Null}}
TextsSent == UNION {Range(requests[b]) : b \in DOMAIN requests}

\* C1: between calls, the ids whose row has an embedding are exactly the ids
\* in the index
C1_IndexTableCoherence ==
    (pc = "idle" /\ result # "raised") => EmbeddedIds(rag) = IndexIds(index)

\* an update has returned leaving both rows with and rows without embedding
C1_Witness ==
    /\ Returned("update")
    /\ index # {} /\ index # index0
    /\ \E r \in rag : r.embedding = Null

\* C2: after an update that returned, no row is left whose hash is not the
\* digest of a file of that call (the second sentence of the claim, which the
\* equality of its first sentence implies)
C2_NoStaleHash == Returned("update") => Shas(rag) \subseteq Digests(call.files)

\* C3: an update removes, from the table and from the index, every row whose
\* hash is in the store and is no digest of a current file; it keeps the
\* other rows and adds rows only for files whose digest was not in the store
C3_DiffCorrectness ==
    Returned("update") =>
        LET stale == {r \in rag0 : r.file_sha \notin Digests(call.files)}
        IN  /\ rag \cap stale = {}
            /\ IndexIds(index) \cap RowIds(stale) = {}
            /\ (rag0 \ stale) \subseteq rag
            /\ \A r \in rag \ rag0 :
                    r.file_sha \in Digests(call.files) \ Shas(rag0)

\* C4: an update with the file list of the update before it produces no
\* chunk, sends the provider nothing and leaves table and index as they were
C4_UpdateIdempotent ==
    (Returned("update") /\ prev.kind = "update" /\ prev.files = call.files) =>
        /\ all_chunks = <<>>
        /\ requests = <<>>
        /\ rag = rag0 /\ index = index0

\* C5, as claimed: an update leaves a file whose digest is in the store
\* unchunked, its rows and index entries as they were, and sends the provider
\* exactly the chunks of the files whose digest was not in the store
Known(files) == {i \in 1..Len(files) : sha1(files[i].data) \in Shas(rag0)}
ChunksOfNew(files) ==
    UNION {Range(get_chunks(files[i].data, chunk_size, overlap, files[i].path,
                            sha1(files[i].data)))
           : i \in (1..Len(files)) \ Known(files)}
UnchangedLeftAlone ==
    \A i \in Known(call.files) :
        LET h == sha1(call.files[i].data)
        IN  /\ \A k \in DOMAIN all_chunks : all_chunks[k].file_hash # h
            /\ {r \in rag : r.file_sha = h} = {r \in rag0 : r.file_sha = h}
            /\ {e \in index : e.id \in RowIds({r \in rag0 : r.file_sha = h})}
               = {e \in index0 : e.id \in RowIds({r \in rag0 : r.file_sha = h})}
C5_SendsAllNewChunks ==
    Returned("update") =>
        /\ UnchangedLeftAlone
        /\ TextsSent = {c.text_chunk : c \in ChunksOfNew(call.files)}

\* C5, amended: ... and sends the provider exactly those chunks of the files
\* whose digest was not in the store that are under the token budget
C5_SendsShortNewChunks ==
    Returned("update") =>
        /\ UnchangedLeftAlone
        /\ Range(all_chunks) = ChunksOfNew(call.files)
        /\ TextsSent = {c.text_chunk : c \in
                          {x \in ChunksOfNew(call.files) :
                             get_n_tokens(x.text_chunk) < max_n_tokens}}

\* an update has returned that was given a file it knew, a new file with a
\* chunk under the budget and so sent the provider something
C5_Witness ==
    /\ Returned("update")
    /\ Known(call.files) # {}
    /\ Known(call.files) # 1..Len(call.files)
    /\ requests # <<>>
    /\ rag0 # {} /\ rag # rag0

\* C6: an update that returned has committed the table and written the
\* index file after its last change, so that disk and memory agree
C6_Persisted ==
    Returned("update") =>
        /\ Len(io) >= 2
        /\ io[Len(io) - 1] = "db_commit" /\ io[Len(io)] = "write_index"
        /\ disk_rag = rag
        /\ disk_index = [exists |-> TRUE, entries |-> index]

\* C7: the index file is written only when every deletion and insertion of
\* the call is committed, and never holds an id without a committed row
C7_DeferredIndexWrite ==
    /\ "write_index" \in Range(io) =>
          /\ disk_rag = rag
          /\ Len(ids) = Len(all_chunks)
    /\ IndexIds(disk_index.entries) \subseteq RowIds(disk_rag)

\* an update stands between its two writes: the new rows are committed, the
\* index file does not hold them yet
C7_Witness ==
    /\ call.kind = "update" /\ pc = "write_index"
    /\ disk_rag = rag /\ rag # rag0
    /\ index # index0 /\ disk_index.entries = index0

\* C8: ids are taken as max_id + 1, in strictly increasing order, so that no
\* id is taken twice, across calls and constructions of the store
C8_IdsNeverReused ==
    /\ assigned # <<>> => max_id = assigned[Len(assigned)].id
    /\ \A i, j \in DOMAIN assigned :
          i < j => assigned[i].id < assigned[j].id

\* ids were taken before and after the store was constructed again
C8_Witness ==
    \E i, j \in DOMAIN assigned :
        /\ assigned[i].open < assigned[j].open
        /\ assigned[j].id = assigned[i].id + 1
        /\ assigned[i].chunk # assigned[j].chunk

\* C9: a call that returned has stored every chunk at or over the budget as
\* a row without embedding and without index entry, and every new row
\* without embedding is such a chunk
C9_TooLongStoredNull ==
    (pc = "idle" /\ result = "returned") =>
        /\ \A k \in DOMAIN all_chunks :
              get_n_tokens(all_chunks[k].text_chunk) >= max_n_tokens =>
                 \E r \in rag \ rag0 :
                    /\ r.text_chunk = all_chunks[k].text_chunk
                    /\ r.file_path = all_chunks[k].file_path
                    /\ r.start_line = all_chunks[k].start_line
                    /\ r.embedding = Null
                    /\ r.id \notin IndexIds(index)
        /\ \A r \in rag \ rag0 :
              r.embedding = Null => get_n_tokens(r.text_chunk) >= max_n_tokens

RECURSIVE LinesLen(_, _, _)
LinesLen(lines, from, to) ==
    IF from > to THEN 0 ELSE Len(lines[from]) + LinesLen(lines, from + 1, to)

\* C10: for a file that decodes to n lines, get_chunks yields one chunk per
\* start 0, step, 2*step, ... below n, in that order, each ending at
\* min(n, start + chunk_size), holding the lines from start to end joined by
\* newlines, under the caller's filename and hash; a chunk has chunk_size
\* lines, or fewer and then ends at n; 10 lines cut by 4 with overlap 1 give
\* [0,4), [3,7), [6,10), [9,10)
C10_ChunkerWindows ==
    LET n == Len(ck.lines)
        step == ck.size - ck.ovl
        Window(k) == <<ck.out[k].start_line, ck.out[k].end_line>>
    IN  /\ \A k \in DOMAIN ck.out :
              LET c == ck.out[k]
              IN  /\ c.start_line = (k - 1) * step /\ c.start_line < n
                  /\ c.end_line = IF c.start_line + ck.size < n
                                  THEN c.start_line + ck.size ELSE n
                  /\ splitlines(c.text_chunk)
                       = [i \in 1..(c.end_line - c.start_line) |->
                             ck.lines[c.start_line + i]]
                  /\ Len(c.text_chunk)
                       = LinesLen(ck.lines, c.start_line + 1, c.end_line)
                         + (c.end_line - c.start_line - 1)
                  /\ c.file_path = ChunkerName /\ c.file_hash = sha1(ck.file)
                  /\ c.end_line - c.start_line <= ck.size
                  /\ c.end_line - c.start_line = ck.size \/ c.end_line = n
        /\ (ck.pc = "done" /\ Decodable(ck.file)) =>
              Len(ck.out) = Cardinality({s \in 0..(n - 1) : s % step = 0})
        /\ (ck.pc = "done" /\ n = 10 /\ ck.size = 4 /\ ck.ovl = 1) =>
              [k \in DOMAIN ck.out |-> Window(k)]
                 = <<(<<0, 4>>), (<<3, 7>>), (<<6, 10>>), (<<9, 10>>)>>

\* the ten lines have been cut by 4 with overlap 1
C10_Witness ==
    /\ ck.pc = "done" /\ Len(ck.lines) = 10 /\ ck.size = 4 /\ ck.ovl = 1
    /\ Len(ck.out) = 4

ChunkLines(c) == c.end_line - c.start_line

C12_Overlap ==
    ck.pc = "done" =>
        \A k \in 2..Len(ck.out) :
            LET shared == ck.out[k - 1].end_line - ck.out[k].start_line
            IN  IF k < Len(ck.out) THEN shared = ck.ovl ELSE shared >= ck.ovl

\* C13: a file that is no text gives no chunk and no error: nothing of it
\* is sent to the provider and no row is stored for it, and the chunks of the
\* call are those of its other files, which are embedded and stored
BinaryFiles(files) == {i \in 1..Len(files) : ~Decodable(files[i].data)}
TextFilesOf(files) == SelectSeq(files, LAMBDA f : Decodable(f.data))
C13_BinarySkipped ==
    /\ \A i \in BinaryFiles(call.files) :
          LET h == sha1(call.files[i].data)
          IN  /\ \A k \in DOMAIN all_chunks : all_chunks[k].file_hash # h
              /\ h \notin Shas(rag)
    /\ \A t \in TextsSent : Decodable(t)
    /\ BinaryFiles(call.files) # {} => result # "raised"
    /\ pc \notin {"idle", "delete", "chunk"} =>
          all_chunks = get_all_chunks(TextFilesOf(call.files), skip_shas)
    /\ (pc = "idle" /\ result = "returned" /\ requests # <<>>) =>
          \A k \in DOMAIN all_chunks :
              get_n_tokens(all_chunks[k].text_chunk) < max_n_tokens =>
                  \E r \in rag \ rag0 :
                      /\ r.text_chunk = all_chunks[k].text_chunk
                      /\ r.file_path = all_chunks[k].file_path
                      /\ r.file_sha = all_chunks[k].file_hash
                      /\ r.embedding = Embed(r.text_chunk)
                      /\ r.id \in IndexIds(index)

\* a call given a binary file and a new text file has returned, the text
\* file embedded and stored
C13_Witness ==
    /\ pc = "idle" /\ result = "returned"
    /\ BinaryFiles(call.files) # {}
    /\ requests # <<>> /\ rag # rag0
    /\ \E r \in rag \ rag0 : r.file_path = "A" /\ r.id \in IndexIds(index)

\* what get_embeddings_batched returned at position i: nothing when the
\* result as a whole is None
PositionOf(i) == IF bt.none THEN Null ELSE bt.rows[i]
OverBudget(i) == get_n_tokens(bt.inputs[i]) >= bt.max
BatchTexts == UNION {Range(bt.sent[k].batch) : k \in DOMAIN bt.sent}

\* C14, as claimed: filtered[i] is true iff texts[i] has max_n_tokens tokens
\* or more, a filtered text is in no request and its position holds None,
\* and every other position holds the provider's vector of its text
C14_FilteredNone ==
    bt.outcome = "returned" =>
        \A i \in DOMAIN bt.inputs :
            /\ bt.mask[i] = OverBudget(i)
            /\ OverBudget(i) => bt.inputs[i] \notin BatchTexts
            /\ PositionOf(i) = IF OverBudget(i) THEN Null
                               ELSE Embed(bt.inputs[i])

\* C14, amended: filtered[i] is true iff texts[i] has max_n_tokens tokens or
\* more and a filtered text is in no request; the result is None as a whole
\* iff every text is filtered, and otherwise a filtered position holds a row
\* of zeros and every other position the provider's vector of its text
C14_FilteredZeros ==
    /\ bt.pc # "filter" =>
          \A i \in DOMAIN bt.inputs :
              /\ bt.mask[i] = OverBudget(i)
              /\ OverBudget(i) => bt.inputs[i] \notin BatchTexts
    /\ bt.outcome = "returned" =>
          /\ bt.none = (\A i \in DOMAIN bt.inputs : OverBudget(i))
          /\ ~bt.none =>
                /\ Len(bt.rows) = Len(bt.inputs)
                /\ \A i \in DOMAIN bt.inputs :
                      bt.rows[i] = IF OverBudget(i) THEN Zeros
                                   ELSE Embed(bt.inputs[i])

\* a call has returned the vectors of two requests around a filtered text
C14_Witness ==
    /\ bt.outcome = "returned" /\ ~bt.none
    /\ Len(bt.sent) >= 2
    /\ Len(bt.inputs) = 3 /\ OverBudget(2)
    /\ bt.rows[2] = Zeros /\ bt.rows[3] = Embed(bt.inputs[3])

RECURSIVE Tokens(_)
Tokens(batch) ==
    IF batch = <<>> THEN 0 ELSE get_n_tokens(Head(batch)) + Tokens(Tail(batch))

ShortInputs == SelectSeq(bt.inputs, LAMBDA t : get_n_tokens(t) < bt.max)
Batches == [k \in DOMAIN bt.sent |-> bt.sent[k].batch]
Packed == concatenate(Batches)
RequestsMade(k) == bt.sent[k].requests

\* C15: the batches are consecutive runs of the non-filtered texts, in order;
\* a batch is closed only by a text that would bring it to the budget, and
\* that text starts the next one; the run left when the texts are exhausted
\* is sent; a returned call has sent every text in exactly one batch, and
\* each batch in one request plus one per rate-limited attempt. Costs
\* 40, 40, 40, 40 under budget 100 go as [1, 2] then [3, 4]
C15_GreedyPacking ==
    /\ Len(Packed) <= Len(ShortInputs)
    /\ Packed = SubSeq(ShortInputs, 1, Len(Packed))
    /\ \A k \in DOMAIN Batches :
          /\ Tokens(Batches[k]) < bt.max
          /\ k < Len(Batches) =>
                Tokens(Batches[k]) + get_n_tokens(Batches[k + 1][1]) >= bt.max
    /\ bt.outcome = "returned" =>
          /\ Packed = ShortInputs
          /\ \A k \in DOMAIN bt.sent :
                RequestsMade(k) = 1 + bt.sent[k].limited
    /\ (bt.outcome = "returned" /\ bt.max = ExampleCase.max
            /\ bt.inputs = TextsOf(ExampleCase.costs)) =>
          Batches = << <<bt.inputs[1], bt.inputs[2]>>,
                       <<bt.inputs[3], bt.inputs[4]>> >>

\* the example has returned after two requests
C15_Witness ==
    /\ bt.outcome = "returned"
    /\ bt.max = ExampleCase.max /\ bt.inputs = TextsOf(ExampleCase.costs)
    /\ Len(bt.sent) = 2
    /\ RequestsMade(1) = 1 /\ RequestsMade(2) = 1

\* C16: every batch handed to the provider holds a text, and its texts
\* together have fewer tokens than max_n_tokens
C16_BatchWithinBudget ==
    \A k \in DOMAIN bt.sent :
        /\ bt.sent[k].batch # <<>>
        /\ Tokens(bt.sent[k].batch) < bt.max

\* a second batch of two texts, one token under the budget, is at the provider
C16_Witness ==
    /\ bt.pc = "request" /\ Len(bt.sent) = 2
    /\ Len(bt.sent[2].batch) = 2
    /\ Tokens(bt.sent[2].batch) = bt.max - 1
    /\ bt.max = max_n_tokens

\* the calls of get_batch_embeddings that have returned
Answered == 1..Len(bt.batch_results)

RetryRules ==
    /\ bt.outcome = "SDKError" => bt.status_code # 429
    /\ Len(bt.batch_results) \in {Len(bt.sent) - 1, Len(bt.sent)}
    /\ \A k \in DOMAIN bt.sent :
          /\ RequestsMade(k) <= max_retries
          /\ bt.sent[k].limited <= RequestsMade(k)
          /\ k \in Answered =>
                /\ RequestsMade(k) = bt.sent[k].limited + 1
                /\ bt.batch_results[k] =
                      [i \in DOMAIN bt.sent[k].batch |->
                          Embed(bt.sent[k].batch[i])]
    /\ bt.outcome = "RuntimeError" =>
          /\ Len(bt.batch_results) = Len(bt.sent) - 1
          /\ RequestsMade(Len(bt.sent)) = max_retries
          /\ bt.sent[Len(bt.sent)].limited = max_retries
    /\ (bt.pc \in {"backoff1", "backoff2", "try"} /\ bt.attempt > 0) =>
          bt.sent[Len(bt.sent)].limited = bt.attempt

\* C17: a request answered 429 is made again and never raised as such; the
\* answer of the attempt that succeeds is what the batch returns; a batch
\* answered 429 at max_retries attempts has been requested max_retries
\* times, the call then ends in RuntimeError and sends nothing more
C17_RateLimitRetry ==
    /\ []RetryRules
    /\ [][bt.outcome = "RuntimeError" => bt' = bt]_vars

\* a first batch went through at its second attempt, the next one was
\* answered 429 five times and the call raised with texts left unsent
C17_Witness ==
    /\ bt.outcome = "RuntimeError"
    /\ Len(bt.sent) = 2 /\ bt.sent[1].limited = 1 /\ RequestsMade(1) = 2
    /\ RequestsMade(2) = max_retries
    /\ Len(Packed) < Len(ShortInputs)

FailureRules ==
    /\ (bt.pc \in {"backoff1", "backoff2"}
            \/ (bt.pc \in {"try", "request"} /\ bt.attempt > 1)) =>
          bt.status_code = 429
    /\ bt.outcome = "SDKError" =>
          /\ bt.status_code \in Responses \ {200, 429}
          /\ Len(bt.batch_results) = Len(bt.sent) - 1
          /\ RequestsMade(Len(bt.sent)) = bt.sent[Len(bt.sent)].limited + 1

\* C18: a request that fails with another status than 429 ends the call with
\* that error: the batch is not requested again, no wait is taken, and no
\* batch is sent after it
C18_FailurePropagates ==
    /\ []FailureRules
    /\ [][bt.outcome = "SDKError" => bt' = bt]_vars

\* the second batch failed at its first request, with texts left unsent
C18_Witness ==
    /\ bt.outcome = "SDKError" /\ bt.status_code = 500
    /\ Len(bt.sent) = 2 /\ RequestsMade(2) = 1
    /\ Len(bt.batch_results) = 1
    /\ Len(Packed) < Len(ShortInputs)

\* C19: a request under a limiter that has been used starts rate_limit or
\* more after the limiter's last block ended; the limiter stays used from
\* one attempt and one batch to the next; a retry starts twice rate_limit or
\* more after the attempt answered 429 ended
C19_RateLimited ==
    bt.pc = "request" =>
        /\ bt.delayed => bt.elapsed >= rate_limit
        /\ (bt.attempt > 1 \/ Len(bt.sent) > 1) => bt.delayed /\ bt.used
        /\ bt.attempt > 1 => bt.since_429 >= 2 * rate_limit

\* a retry is at the provider, started just rate_limit after the second wait
C19_Witness ==
    /\ bt.pc = "request" /\ bt.attempt = 2
    /\ bt.delayed /\ bt.elapsed = rate_limit
    /\ bt.since_429 >= 2 * rate_limit

\* C20: query gives n_results results or fewer and every one of them is a
\* chunk of the store: an id of the index without a row, or the -1 given
\* when the index has fewer vectors, leaves no entry in the result
C20_QueryResolved ==
    answer.kind = "returned" =>
        /\ Len(answer.chunks) <= answer.n_results
        /\ \A i \in DOMAIN answer.chunks : ~answer.chunks[i].none

\* C21: a query of max_n_tokens tokens or more, and no other, ends in the
\* "Query too long" error; no request has gone to the provider, the index
\* was not searched, and the table, the index and the files are as before
QueryTooLongRules ==
    answer.kind # "none" =>
        /\ (answer.kind = "raised") =
              (get_n_tokens(answer.query) >= max_n_tokens)
        /\ answer.kind = "raised" =>
              /\ answer.sent = <<>>
              /\ answer.ids = <<>> /\ answer.scores = <<>>
              /\ answer.chunks = <<>>

C21_QueryTooLong ==
    /\ []QueryTooLongRules
    /\ [][answer'.kind = "raised" => UNCHANGED store]_vars

\* a store that holds chunks was asked a query over the budget
C21_Witness ==
    /\ answer.kind = "raised" /\ answer.query = TooLong
    /\ rag # {} /\ index # {} /\ disk_index.exists

\* the index entries a returned query lists, -1 left out
Listed == {i \in DOMAIN answer.ids : answer.ids[i] # -1}
EntryOf(id) == CHOOSE e \in index : e.id = id
IndexedTexts == {r.text_chunk : r \in {x \in rag : x.id \in IndexIds(index)}}

\* C22: a query with the text of an indexed chunk gets, as its first
\* result, a chunk with that text; the ids a query gets are entries of the
\* index, each once, nearest first, none nearer left out, and -1 only when
\* the index has no more
C22_SelfRetrieval ==
    (answer.kind = "returned" /\ pc = "idle") =>
        /\ answer.query \in IndexedTexts =>
              /\ ~answer.chunks[1].none
              /\ answer.chunks[1].chunk.text_chunk = answer.query
        /\ Len(answer.ids) = answer.n_results
        /\ Cardinality(Listed) = Min(answer.n_results, Cardinality(index))
        /\ \A i \in Listed :
              /\ answer.ids[i] \in IndexIds(index)
              /\ \A j \in Listed : i < j => answer.ids[i] # answer.ids[j]
              /\ \A j \in DOMAIN answer.ids : j < i => j \in Listed
              /\ answer.scores[i] =
                    distance(Embed(answer.query), EntryOf(answer.ids[i]).vec)
              /\ \A e \in index :
                    e.id \notin Range(answer.ids) =>
                        answer.scores[i] <= distance(Embed(answer.query), e.vec)
        /\ \A i, j \in DOMAIN answer.scores :
              i < j => answer.scores[i] <= answer.scores[j]

\* after generate_index over two files, the text of the second chunk was
\* asked with n_results = 1 and came back
C22_Witness ==
    /\ answer.kind = "returned" /\ pc = "idle"
    /\ call.kind = "generate" /\ result = "returned"
    /\ answer.n_results = 1 /\ Cardinality(index) >= 3
    /\ answer.query \in IndexedTexts
    /\ answer.chunks[1].chunk.text_chunk = answer.query
    /\ answer.ids[1] # 1

\* sum(min(l, t) for l in lengths)
SumMin(lengths, t) == Sum([i \in DOMAIN lengths |-> Min(lengths[i], t)])
Longest(lengths) ==
    IF lengths = <<>> THEN 0 ELSE Max(Range(lengths))

\* C23: compute_truncation gives None iff the lengths sum to max_total or
\* less, and otherwise the largest t >= 0 with sum(min(l, t)) <= max_total:
\* that sum is within max_total at t and above it at t + 1 and at every
\* larger cap; lengths 3, 10, 10 under 15 give 6 and 5, 5, 5 under 100 None
C23_LargestCap ==
    tr.pc \in {"truncate", "write", "done"} =>
        LET lengths == tr.lengths
            max_total == tr.max_total
            t == tr.truncation.t
        IN  /\ tr.truncation.none = (Sum(lengths) <= max_total)
            /\ ~tr.truncation.none =>
                  /\ t >= 0
                  /\ SumMin(lengths, t) <= max_total
                  /\ SumMin(lengths, t + 1) > max_total
                  /\ \A u \in (t + 1)..Longest(lengths) :
                        SumMin(lengths, u) > max_total
            /\ (lengths = <<3, 10, 10>> /\ max_total = 15) =>
                  ~tr.truncation.none /\ t = 6
            /\ (lengths = <<5, 5, 5>> /\ max_total = 100) =>
                  tr.truncation.none

\* the first example has given 6
C23_Witness ==
    /\ tr.pc = "done" /\ tr.lengths = <<3, 10, 10>> /\ tr.max_total = 15
    /\ ~tr.truncation.none /\ tr.truncation.t = 6

\* C24: when diff_all_files has a cap t, every item it writes is t long or
\* shorter, the marker counted, and the text it returns is max_total_size
\* long or shorter
C24_CutWithinCap ==
    (tr.pc \in {"write", "done"} /\ tr.all_file_info # <<>>
        /\ ~tr.truncation.none) =>
        /\ \A i \in DOMAIN tr.cut : Len(tr.cut[i]) <= tr.truncation.t
        /\ tr.pc = "done" => Len(tr.return_data) <= tr.max_total

\* C25: after insert_db, called with its default arguments and an embedding
\* that is not None, the new id has a row in the table and an entry in the
\* index, and a table and index that agreed before still agree
C25_InsertIndexed ==
    (Returned("insert") /\ emb.rows[1] # Null) =>
        /\ ids[1] \in RowIds(rag)
        /\ ids[1] \in IndexIds(index)
        /\ EmbeddedIds(rag0) = IndexIds(index0) =>
              EmbeddedIds(rag) = IndexIds(index)

\* C26: the synced flag of a conversation is true only if that conversation
\* has appended no message of its caller or of a tool since its last
\* successful API call; a send whose API call failed leaves synced false;
\* and send raises ValueError exactly when nothing was appended since the
\* last successful send
C26_SyncFlag ==
    /\ \A i \in DOMAIN cv.objs :
          cv.objs[i].synced =>
             cv.objs[i].had_success /\ ~cv.objs[i].dirty
    /\ (cv.last.op = "send"
          /\ cv.last.outcome \in {"SDKError", "AssertionError"})
       => ~cv.objs[cv.last.obj].synced
    /\ cv.last.op = "send"
       => ((cv.last.outcome = "ValueError")
             <=> (cv.last.had_success_before /\ ~cv.last.dirty_before))

\* C28: every message in the list of a conversation was appended through
\* that conversation, and a conversation constructed without a system
\* prompt starts with an empty list
C28_Isolation ==
    /\ \A i \in DOMAIN cv.objs :
          \A k \in DOMAIN messages_of(cv, i) : messages_of(cv, i)[k].by = i
    /\ (cv.last.op = "init" /\ ~cv.objs[cv.last.obj].with_prompt)
       => messages_of(cv, cv.last.obj) = <<>>

\* C27: when the embedding step of generate_index or update_index fails,
\* the call has ended without inserting a row or adding an index entry, and
\* no step of a call from its entry to that failure changes the files of
\* the store and of the index
FailedEmbedding == result \in EmbeddingFailures

C27_NothingStored ==
    FailedEmbedding =>
       /\ pc = "idle" /\ ids = <<>>
       /\ RowIds(rag) \subseteq RowIds(rag0)
       /\ IndexIds(index) \subseteq IndexIds(index0)

C27_FailureAtomic ==
    /\ []C27_NothingStored
    /\ [][(pc' \in {"delete", "chunk", "embed"} \/ (~FailedEmbedding /\ FailedEmbedding'))
          => (disk_rag' = disk_rag /\ disk_index' = disk_index)]_vars

C27_Witness ==
    /\ FailedEmbedding /\ call.kind = "update"
    /\ rag0 # {} /\ requests # <<>>
    /\ Len(all_chunks) > Len(requests)

\* C29: every embedding request of the database goes through the limiter
\* the database was configured with, and a query request that follows an
\* indexing request comes no sooner than that limiter's interval after it
C29_OneLimiter ==
    \A k \in DOMAIN lm.log :
       /\ lm.log[k].limiter = "db"
       /\ (k > 1 /\ lm.log[k - 1].call = "index" /\ lm.log[k].call = "query")
          => lm.log[k].gap >= rate_limit

\* C30: get_embeddings_batched on any of the input sequences ends, by
\* returning or by raising; it never sends an empty batch, and never more
\* batches than there are texts under the budget
BoundedRequests ==
    bt.pc # "filter" =>
       /\ Len(bt.sent) <= Len(bt.filtered)
       /\ \A k \in DOMAIN bt.sent : bt.sent[k].batch # <<>>
       /\ \A k \in DOMAIN bt.sent : bt.sent[k].requests <= max_retries

C30_Terminates == []BoundedRequests /\ <>(bt.outcome # "running")

C30_Witness ==
    /\ bt.outcome = "returned"
    /\ Len(bt.sent) >= 2
    /\ Len(bt.filtered) < Len(bt.inputs)
    /\ \E k \in DOMAIN bt.sent : bt.sent[k].limited > 0


====
